---- MODULE Spec2Model ----
(***************************************************************************)
(* Distributed lock use case of valkey-use-cases.                          *)
(*                                                                         *)
(* SimpleMutexLock (apps/distributed-lock/src/simple-mutex-lock.ts) talks  *)
(* to one broker; OperationService.doMutuallyExclusiveOperation            *)
(* (apps/distributed-lock/src/service.ts) wraps performOperation with      *)
(* acquire / release; createOperationRouter (index.ts) maps the result to  *)
(* an HTTP status.  Each caller is one in-flight HTTP request.  Time is in *)
(* milliseconds and advances in steps of TickMs.                           *)
(***************************************************************************)
EXTENDS Integers, Sequences, FiniteSets, TLC

\* ---- bounds of the model ------------------------------------------------
NumCallers == 2
NumResources == 1
MaxTicks == 2
TickMs == 12500
MaxPermits == 3
MaxInstances == 6
MaxWrites == 2

\* ---- configuration of OperationService ----------------------------------
operationMinDurationMs == 10000
operationMaxDurationMs == 20000
lockTtlMs == 25000

\* ---- configuration of the rate limiter ------------------------------------
windowMs == 1000
maxRequests == 2

\* ---- configuration of the write-behind service ----------------------------
NUM_CONSUMERS == 2

\* ---- configuration of the Redlock instances ------------------------------
instanceCount == 5
redlockTtl == 10000
CLOCK_DRIFT_FACTOR_X100 == 1

Callers == 1..NumCallers
Instances == 1..instanceCount
Resources == 1..NumResources
MaxTime == MaxTicks * TickMs
Durations == {operationMinDurationMs, operationMaxDurationMs}

VARIABLES
  now,      \* broker clock, ms
  store,    \* broker: lock key -> record (value, expireAt) or NoRecord
  pc,       \* position of each caller inside doMutuallyExclusiveOperation
  req,      \* locals of each caller's current request
  result    \* OperationResult values the current request has returned

vars == <<now, store, pc, req, result>>

\* the server of the distributed-lock app mounts one OperationService per lock
\* implementation; a run of the model exercises one of the two routes
VARIABLES
  route,        \* "simple" (SimpleMutexLock) or "redlock" (RedLock)
  activeLocks,  \* RedLock.activeLocks: lock key -> value of the tracked Lock
  sd            \* progress of RedLock.shutdown

redVars == <<route, activeLocks, sd>>

\* the Redlock algorithm of the lock guide (acquireRedlock): the records of
\* the N independent instances and the locals of each client's attempt
VARIABLES
  inst,     \* instance -> record stored under lock:resource
  qc        \* client (A, B) -> locals of acquireRedlock

quorumVars == <<inst, qc>>

\* the sliding-window rate limiter: the sorted set of one key, the locals of
\* each acquirePermit call and the times at which calls were allowed
VARIABLES
  zset,     \* members of the sorted set, each with its score
  lim,      \* caller -> locals of acquirePermit
  allowedAt \* times of the calls that returned allowed = true

limiterVars == <<zset, lim, allowedAt>>

\* the rate-limit middleware: what it has done with each request
VARIABLES
  mw        \* caller -> the middleware's answer to the caller's request

\* the stampede-prevention cache service: the store it talks to, the locals
\* of each get call and what has happened so far
VARIABLES
  scache,   \* cached data present, holder of the lock key, subscribers
  sp,       \* caller -> locals of StampedePreventionService.get
  sghost    \* computations run, whether the lock expired or a wait timed out

stampedeVars == <<scache, sp, sghost>>

\* the RedLock constructor: what the last `new RedLock(options)` produced
VARIABLES
  built     \* the options given, the error thrown or the fields of the object

\* the refresh-ahead cache service: the store it talks to and each get call
VARIABLES
  rcache,   \* the cached item ("none", "fresh", "stale") and the lock key
  rp,       \* caller -> position of get and of the refresh it triggered
  rghost    \* whether the lock key has expired while it was held

\* the write-behind cache service: its queue and its consumers
VARIABLES
  wq,       \* the stream: message id -> delivery state and owning consumer
  wc        \* consumer -> timer, interval, isProcessing, batch in hand

serviceVars == <<built, rcache, rp, rghost, wq, wc>>

\* state of the parts of the repository outside the distributed-lock server
others == <<quorumVars, limiterVars, mw, stampedeVars, serviceVars>>

\* ---- broker records -----------------------------------------------------
NoToken == 0
NoRecord == [value |-> NoToken, expireAt |-> 0]

\* randomBytes(16): a value no other acquisition carries; each caller is one
\* request and makes one acquisition
generateLockId(c) == c

\* SET without NX: the value is written whether or not the key exists
SetPx(rec, value, ttlMs, t) ==
  [reply |-> "OK", rec |-> [value |-> value, expireAt |-> t + ttlMs]]

\* SET NX with EX in place of PX: the TTL is taken as seconds
SetNxEx(rec, value, ttlMs, t) ==
  IF rec = NoRecord
    THEN [reply |-> "OK",
          rec |-> [value |-> value, expireAt |-> t + ttlMs * 1000]]
    ELSE [reply |-> "nil", rec |-> rec]

\* SET key value PX ttl NX, executed at broker time t
SetNxPx(rec, value, ttlMs, t) ==
  IF rec = NoRecord
    THEN [reply |-> "OK", rec |-> [value |-> value, expireAt |-> t + ttlMs]]
    ELSE [reply |-> "nil", rec |-> rec]

\* a plain DEL: the stored value is not compared with the lock id
PlainDel(rec, lockId) ==
  IF rec # NoRecord
    THEN [reply |-> 1, rec |-> NoRecord]
    ELSE [reply |-> 0, rec |-> rec]

\* the release script: get == ARGV[1] ? del : 0
RELEASE_SCRIPT(rec, lockId) ==
  IF rec # NoRecord /\ rec.value = lockId
    THEN [reply |-> 1, rec |-> NoRecord]
    ELSE [reply |-> 0, rec |-> rec]

\* PTTL key: remaining ms, -2 when the key does not exist
Pttl(rec, t) == IF rec = NoRecord THEN -2 ELSE rec.expireAt - t

\* the broker drops a record once its expiry is reached
Expire(rec, t) == IF rec # NoRecord /\ rec.expireAt <= t THEN NoRecord ELSE rec

\* ---- SimpleMutexLock ----------------------------------------------------
\* the reply of PTTL passed on as it is
retryAfterRaw(pttl, ttlMs) == pttl

retryAfter(pttl, ttlMs) == IF pttl > 0 THEN pttl ELSE ttlMs

AcquireSuccess(lockId) == [success |-> TRUE, lockId |-> lockId]
AcquireBusy(ra) == [success |-> FALSE, retryAfter |-> ra]
NotAcquired == [success |-> FALSE]

\* ---- OperationResult ----------------------------------------------------
\* the success result built without its duration
CompletedNoDuration(r, d) == [success |-> TRUE, resourceId |-> r]

Completed(r, d) == [success |-> TRUE, resourceId |-> r, durationMs |-> d]
Conflicted(r, ra) ==
  [success |-> FALSE, resourceId |-> r, retryAfterMs |-> ra,
   error |-> "Resource is currently locked"]
OperationFailed(r) ==
  [success |-> FALSE, resourceId |-> r,
   error |-> "Operation failed during execution"]
LockError(r) ==
  [success |-> FALSE, resourceId |-> r,
   error |-> "Failed to acquire or manage lock"]

\* createOperationRouter: status code of the response
HttpStatus(res) ==
  IF res.success THEN 200
  ELSE IF "retryAfterMs" \in DOMAIN res THEN 409
  ELSE 500

\* the header computed with Math.floor
RetryAfterFloor(res) == res.retryAfterMs \div 1000

\* createOperationRouter, lines 116-119: Retry-After of a 409 response,
\* Math.ceil(result.retryAfterMs / 1000)
RetryAfterHeader(res) == (res.retryAfterMs + 999) \div 1000

\* ---- locals of one request ----------------------------------------------
\* expireAt is the time at which the TTL requested by a successful acquire
\* elapses; it is kept until the request returns.  opStart and durationMs
\* are the locals of performOperation and of the try block around it.
NoReq ==
  [resourceId |-> 0, lockId |-> NoToken, acquireResult |-> NotAcquired,
   acquireError |-> "none", acquireThrew |-> FALSE, expireAt |-> 0,
   opStart |-> 0, durationMs |-> 0, opCalls |-> 0, opResult |-> "none",
   releaseCalls |-> 0, releaseResult |-> "none"]

\* the clients of the lock guide's scenario
Clients == {"A", "B"}

\* generateUniqueLockId(): a value no other attempt carries; each client
\* makes one attempt
generateUniqueLockId(c) == IF c = "A" THEN 1 ELSE 2

\* acquireRedlock has not been called
NoAttempt ==
  [pc |-> "idle", lockId |-> NoToken, startTime |-> 0, i |-> 0,
   acquiredCount |-> 0, validUntilX100 |-> 0, rolledBack |-> TRUE]

\* N empty instances, no attempt under way
QuorumInit ==
  /\ inst = [b \in Instances |-> NoRecord]
  /\ qc = [c \in Clients |-> NoAttempt]

\* no acquirePermit call under way
NoPermitCall == [pc |-> "idle", now |-> 0, currentCount |-> 0]

\* the key does not exist, nothing was allowed yet
LimiterInit ==
  /\ zset = [members |-> {}, expireAt |-> 0]
  /\ lim = [c \in Callers |-> NoPermitCall]
  /\ allowedAt = << >>

\* no request has reached the middleware
NoAnswer ==
  [pc |-> "idle", permit |-> "none", status |-> 0, nextCalls |-> 0,
   headers |-> FALSE]

MiddlewareInit == mw = [c \in Callers |-> NoAnswer]

\* get has not been called
NoGet ==
  [pc |-> "idle", miss |-> FALSE, lockAcquired |-> FALSE, cached |-> FALSE,
   notified |-> FALSE, subscriber |-> "none", source |-> "none"]

\* an empty cache, a free lock key, nobody subscribed
StampedeInit ==
  /\ scache = [data |-> FALSE, lock |-> NoToken, subscribers |-> {}]
  /\ sp = [c \in Callers |-> NoGet]
  /\ sghost = [computations |-> 0, lockExpired |-> FALSE, timedOut |-> FALSE]

\* no RedLock has been constructed
NotBuilt ==
  [given |-> [defined |-> FALSE, length |-> 0], error |-> "none",
   warned |-> FALSE, object |-> [exists |-> FALSE]]

\* nothing constructed, nothing cached, no lock key, no call under way
ServiceInit ==
  /\ built = NotBuilt
  /\ rcache = [item |-> "none", lock |-> FALSE]
  /\ rp = [c \in Callers |-> [pc |-> "idle", cached |-> FALSE]]
  /\ rghost = [lockExpired |-> FALSE]
  /\ wq = << >>
  /\ wc = [k \in 1..NUM_CONSUMERS |->
            [timerFired |-> FALSE, interval |-> FALSE, isProcessing |-> FALSE,
             stopped |-> FALSE, batch |-> {}]]

\* RedLock.shutdown has not been called
NoShutdown == [pc |-> "running", pending |-> {}, attempted |-> {}, dropped |-> {}]

\* the RedLock constructor: this.activeLocks = new Map()
RedLockInit ==
  /\ activeLocks = [r \in Resources |-> NoToken]
  /\ sd = NoShutdown

Init ==
  /\ now = 0
  /\ store = [r \in Resources |-> NoRecord]
  /\ pc = [c \in Callers |-> "idle"]
  /\ req = [c \in Callers |-> NoReq]
  /\ result = [c \in Callers |-> << >>]
  /\ route = "simple"
  /\ RedLockInit
  /\ QuorumInit
  /\ LimiterInit
  /\ MiddlewareInit
  /\ StampedeInit
  /\ ServiceInit

\* time passes; records whose TTL has elapsed vanish
Tick ==
  /\ now + TickMs <= MaxTime
  /\ now' = now + TickMs
  /\ store' = [r \in DOMAIN store |-> Expire(store[r], now + TickMs)]
  /\ UNCHANGED <<pc, req, result>>
  /\ UNCHANGED <<redVars, others>>

\* POST /:resourceId arrives: doMutuallyExclusiveOperation(r) calls acquire,
\* which mints the lockId and sends SET
Call(c, r) ==
  /\ pc[c] = "idle"
  /\ req' = [req EXCEPT ![c] =
       [NoReq EXCEPT !.resourceId = r,
                     !.lockId = generateLockId(c)]]
  /\ result' = [result EXCEPT ![c] = << >>]
  /\ pc' = [pc EXCEPT ![c] = "acquire"]
  /\ UNCHANGED <<now, store>>
  /\ UNCHANGED <<redVars, others>>

\* line 80: const lockId = acquireResult.lockId!  (undefined when absent)
lockIdOf(a) == IF "lockId" \in DOMAIN a THEN a.lockId ELSE NoToken

\* the success check left out
neverLocked(a) == FALSE

\* line 67: if (!acquireResult.success)
isLocked(a) == ~a.success

\* a catch block that reports the broker error as a busy lock
acquireCatchAsBusy(ttlMs) == [threw |-> FALSE, value |-> AcquireBusy(ttlMs)]

\* acquire's catch block: log and rethrow
acquireCatch(ttlMs) == [threw |-> TRUE, value |-> NotAcquired]

\* doMutuallyExclusiveOperation resumes after `await acquire(...)` with the
\* settled promise a = [threw, value]; err names the broker command of
\* acquire that rejected ("none" when both were answered).  On success it
\* runs on into performOperation, which picks its duration d and goes to
\* sleep (lines 164-176)
AcquireReturns(c, a, expireAt, err, d) ==
  LET r == req[c].resourceId
      entersOperation == ~a.threw /\ ~isLocked(a.value)
  IN
  /\ req' = [req EXCEPT ![c].acquireResult = a.value,
                        ![c].acquireThrew = a.threw,
                        ![c].acquireError = err,
                        ![c].expireAt = expireAt,
                        ![c].opCalls = IF entersOperation THEN 1 ELSE 0,
                        ![c].opStart = IF entersOperation THEN now ELSE 0,
                        ![c].durationMs = IF entersOperation THEN d ELSE 0]
  /\ IF a.threw
       THEN /\ result' = [result EXCEPT ![c] = Append(@, LockError(r))]
            /\ pc' = [pc EXCEPT ![c] = "done"]
       ELSE IF isLocked(a.value)
         THEN /\ result' = [result EXCEPT ![c] =
                   Append(@, Conflicted(r, a.value.retryAfter))]
              /\ pc' = [pc EXCEPT ![c] = "done"]
         ELSE /\ result' = result
              /\ pc' = [pc EXCEPT ![c] = "operating"]

\* acquire, line 54: the broker executes SET NX PX and replies
AcquireSet(c, d) ==
  /\ pc[c] = "acquire"
  /\ LET r == req[c].resourceId
         s == SetNxPx(store[r], req[c].lockId, lockTtlMs, now)
     IN /\ store' = [store EXCEPT ![r] = s.rec]
        /\ IF s.reply = "OK"
             THEN AcquireReturns(c,
                    [threw |-> FALSE, value |-> AcquireSuccess(req[c].lockId)],
                    now + lockTtlMs, "none", d)
             ELSE /\ pc' = [pc EXCEPT ![c] = "pttl"]
                  /\ UNCHANGED <<req, result>>
  /\ UNCHANGED now
  /\ UNCHANGED <<redVars, others>>

\* acquire, line 54 rejects (connection lost, timeout); the broker may or may
\* not have executed the command before the error reached the client
AcquireSetError(c, applied) ==
  /\ pc[c] = "acquire"
  /\ LET r == req[c].resourceId
         s == SetNxPx(store[r], req[c].lockId, lockTtlMs, now)
     IN store' = [store EXCEPT ![r] = IF applied THEN s.rec ELSE @]
  /\ AcquireReturns(c, acquireCatch(lockTtlMs), 0, "set", 0)
  /\ UNCHANGED now
  /\ UNCHANGED <<redVars, others>>

\* a refused set answered by trying the set again
AcquireRetry(c) ==
  /\ pc[c] = "pttl"
  /\ pc' = [pc EXCEPT ![c] = "acquire"]
  /\ UNCHANGED <<now, store, req, result>>
  /\ UNCHANGED <<redVars, others>>

\* acquire, lines 64-70: the set was refused, read the remaining TTL
AcquirePttl(c) ==
  /\ pc[c] = "pttl"
  /\ LET pttl == Pttl(store[req[c].resourceId], now)
     IN AcquireReturns(c,
          [threw |-> FALSE,
           value |-> AcquireBusy(retryAfter(pttl, lockTtlMs))], 0, "none", 0)
  /\ UNCHANGED <<now, store>>
  /\ UNCHANGED <<redVars, others>>

\* acquire, line 64 rejects
AcquirePttlError(c) ==
  /\ pc[c] = "pttl"
  /\ AcquireReturns(c, acquireCatch(lockTtlMs), 0, "pttl", 0)
  /\ UNCHANGED <<now, store>>
  /\ UNCHANGED <<redVars, others>>

\* ---- the protected operation --------------------------------------------
\* the timer fires at or after its delay; performOperation returns
FinishOperation(c) ==
  /\ pc[c] = "operating"
  /\ now >= req[c].opStart + req[c].durationMs
  /\ req' = [req EXCEPT ![c].opResult = "ok", ![c].opStart = 0]
  /\ pc' = [pc EXCEPT ![c] = "release"]
  /\ UNCHANGED <<now, store, result>>
  /\ UNCHANGED <<redVars, others>>

\* the business logic performOperation stands for throws: control enters
\* catch (operationError), line 113
ThrowOperation(c) ==
  /\ pc[c] = "operating"
  /\ req' = [req EXCEPT ![c].opResult = "threw", ![c].opStart = 0,
                        ![c].durationMs = 0]
  /\ pc' = [pc EXCEPT ![c] = "cleanup"]
  /\ UNCHANGED <<now, store, result>>
  /\ UNCHANGED <<redVars, others>>

\* the process dies while it holds the lock, before it has sent a release;
\* its locals are gone and nothing of the request runs again
Crash(c) ==
  /\ pc[c] \in {"operating", "release", "cleanup"}
  /\ req[c].releaseCalls = 0
  /\ req' = [req EXCEPT ![c] =
       [NoReq EXCEPT !.resourceId = req[c].resourceId,
                     !.lockId = req[c].lockId,
                     !.acquireResult = req[c].acquireResult,
                     !.expireAt = req[c].expireAt]]
  /\ pc' = [pc EXCEPT ![c] = "crashed"]
  /\ UNCHANGED <<now, store, result>>
  /\ UNCHANGED <<redVars, others>>

\* ---- release ------------------------------------------------------------
\* success reported for every reply of the script
releaseAlwaysSuccess(reply) == reply >= 0

\* release(): { success: result === 1 }
releaseSuccess(reply) == reply = 1

\* the release error leaves the handler and reaches catch (lockError)
releaseErrorEscapes(r) == LockError(r)

\* the release at line 121 rejected: the inner catch logs it and the handler
\* goes on to return its result
releaseErrorInCatch(r) == OperationFailed(r)

\* line 93, release after the operation returned; then lines 98-112
ReleaseAfterOperation(c) ==
  /\ pc[c] = "release"
  /\ LET r == req[c].resourceId
         x == RELEASE_SCRIPT(store[r], lockIdOf(req[c].acquireResult))
     IN /\ store' = [store EXCEPT ![r] = x.rec]
        /\ req' = [req EXCEPT ![c].releaseCalls = @ + 1,
                              ![c].expireAt = 0, ![c].durationMs = 0,
                              ![c].releaseResult =
                                 IF releaseSuccess(x.reply) THEN "released"
                                 ELSE "notReleased"]
        /\ result' = [result EXCEPT ![c] =
                        Append(@, Completed(r, req[c].durationMs))]
  /\ pc' = [pc EXCEPT ![c] = "done"]
  /\ UNCHANGED now
  /\ UNCHANGED <<redVars, others>>

\* line 93 rejects: release rethrows (line 120) inside the try block of the
\* operation, so control enters catch (operationError), line 113
ReleaseAfterOperationError(c, applied) ==
  /\ pc[c] = "release"
  /\ LET r == req[c].resourceId
         x == RELEASE_SCRIPT(store[r], lockIdOf(req[c].acquireResult))
     IN store' = [store EXCEPT ![r] = IF applied THEN x.rec ELSE @]
  /\ req' = [req EXCEPT ![c].releaseCalls = @ + 1,
                        ![c].durationMs = 0,
                        ![c].releaseResult = "threw"]
  /\ pc' = [pc EXCEPT ![c] = "cleanup"]
  /\ UNCHANGED <<now, result>>
  /\ UNCHANGED <<redVars, others>>

\* line 121, release inside catch (operationError); then lines 132-136
ReleaseInCatch(c) ==
  /\ pc[c] = "cleanup"
  /\ LET r == req[c].resourceId
         x == RELEASE_SCRIPT(store[r], lockIdOf(req[c].acquireResult))
     IN /\ store' = [store EXCEPT ![r] = x.rec]
        /\ req' = [req EXCEPT ![c].releaseCalls = @ + 1,
                              ![c].expireAt = 0,
                              ![c].releaseResult =
                                 IF releaseSuccess(x.reply) THEN "released"
                                 ELSE "notReleased"]
        /\ result' = [result EXCEPT ![c] = Append(@, OperationFailed(r))]
  /\ pc' = [pc EXCEPT ![c] = "done"]
  /\ UNCHANGED now
  /\ UNCHANGED <<redVars, others>>

\* line 121 rejects: caught at line 125
ReleaseInCatchError(c, applied) ==
  /\ pc[c] = "cleanup"
  /\ LET r == req[c].resourceId
         x == RELEASE_SCRIPT(store[r], lockIdOf(req[c].acquireResult))
     IN /\ store' = [store EXCEPT ![r] = IF applied THEN x.rec ELSE @]
        /\ result' = [result EXCEPT ![c] = Append(@, releaseErrorInCatch(r))]
  /\ req' = [req EXCEPT ![c].releaseCalls = @ + 1,
                        ![c].expireAt = 0,
                        ![c].releaseResult = "threw"]
  /\ pc' = [pc EXCEPT ![c] = "done"]
  /\ UNCHANGED now
  /\ UNCHANGED <<redVars, others>>

Next ==
  \/ Tick
  \/ \E c \in Callers, r \in Resources : Call(c, r)
  \/ \E c \in Callers, d \in Durations : AcquireSet(c, d)
  \/ \E c \in Callers, applied \in BOOLEAN : AcquireSetError(c, applied)
  \/ \E c \in Callers : AcquirePttl(c)
  \/ \E c \in Callers : AcquirePttlError(c)
  \/ \E c \in Callers : FinishOperation(c)
  \/ \E c \in Callers : ThrowOperation(c)
  \/ \E c \in Callers : Crash(c)
  \/ \E c \in Callers : ReleaseAfterOperation(c)
  \/ \E c \in Callers, applied \in BOOLEAN : ReleaseAfterOperationError(c, applied)
  \/ \E c \in Callers : ReleaseInCatch(c)
  \/ \E c \in Callers, applied \in BOOLEAN : ReleaseInCatchError(c, applied)

Spec == Init /\ [][Next]_vars

\* ---- RedLock (service.ts, class RedLock) --------------------------------
\* The route /api/locks/redlock runs the same OperationService with RedLock
\* as its lockService.  RedLock hands acquisition and release to the redlock
\* package; under this route store[r] is the record that package holds on a
\* majority of the instances, and its calls resolve or reject as inputs.
getQuorum == (instanceCount \div 2) + 1

\* the values of activeLocks
Tracked == {activeLocks[r] : r \in DOMAIN activeLocks} \ {NoToken}

\* the catch block of release leaving the entry in the map
keepOnReleaseError(al, key) == al

\* the catch block of release emptying the map
clearOnReleaseError(al, key) == [k \in DOMAIN al |-> NoToken]

\* release, line 436: this.activeLocks.delete(key) in the catch block
deleteOnReleaseError(al, key) == [al EXCEPT ![key] = NoToken]

\* RedLock.acquire, lines 331-347: redlock.acquire resolved with a Lock; it
\* is stored in activeLocks under the key and success is returned.  k of
\* the instances are erroring; the package needs a majority
RlAcquireResolves(c, k, d) ==
  /\ route = "redlock" /\ pc[c] = "acquire"
  /\ sd.pc # "done"
  /\ instanceCount - k >= getQuorum
  /\ LET r == req[c].resourceId
         s == SetNxPx(store[r], req[c].lockId, lockTtlMs, now)
     IN /\ s.reply = "OK"
        /\ store' = [store EXCEPT ![r] = s.rec]
        /\ activeLocks' = [activeLocks EXCEPT ![r] = req[c].lockId]
  /\ AcquireReturns(c,
       [threw |-> FALSE, value |-> AcquireSuccess(req[c].lockId)],
       now + lockTtlMs, "none", d)
  /\ UNCHANGED <<now, route, sd>>
  /\ UNCHANGED others

\* RedLock.acquire, lines 348-366: redlock.acquire rejected (resource locked,
\* quorum not reached, timeout); the catch block returns retryAfter = ttlMs
RlAcquireRejects(c, k) ==
  /\ route = "redlock" /\ pc[c] = "acquire"
  /\ AcquireReturns(c,
       [threw |-> FALSE, value |-> AcquireBusy(retryAfter(0, lockTtlMs))], 0,
       IF instanceCount - k < getQuorum THEN "quorum" ELSE "locked", 0)
  /\ UNCHANGED <<now, store, redVars>>
  /\ UNCHANGED others

\* the OperationResult returned after release: line 108 or line 132
AfterRelease(c) ==
  IF req[c].opResult = "ok"
    THEN Completed(req[c].resourceId, req[c].durationMs)
    ELSE OperationFailed(req[c].resourceId)

\* RedLock.release, lines 386-412: no Lock is tracked under the key, or the
\* tracked Lock has another value; success = false is returned at once
RlReleaseUntracked(c) ==
  /\ route = "redlock" /\ pc[c] \in {"release", "cleanup"}
  /\ activeLocks[req[c].resourceId] # lockIdOf(req[c].acquireResult)
  /\ req' = [req EXCEPT ![c].releaseCalls = @ + 1,
                        ![c].expireAt = 0, ![c].durationMs = 0,
                        ![c].releaseResult = "notReleased"]
  /\ result' = [result EXCEPT ![c] = Append(@, AfterRelease(c))]
  /\ pc' = [pc EXCEPT ![c] = "done"]
  /\ UNCHANGED <<now, store, redVars>>
  /\ UNCHANGED others

\* release without the ownership check: whatever Lock is tracked under the
\* key is released
RlReleaseAnyTracked(c) ==
  /\ route = "redlock" /\ pc[c] \in {"release", "cleanup"}
  /\ activeLocks[req[c].resourceId] # NoToken
  /\ req' = [req EXCEPT ![c].releaseCalls = @ + 1]
  /\ pc' = [pc EXCEPT ![c] = "releasing"]
  /\ UNCHANGED <<now, store, result, redVars>>
  /\ UNCHANGED others

\* RedLock.release, line 416: the tracked Lock is the caller's;
\* lock.release() is sent
RlReleaseStart(c) ==
  /\ route = "redlock" /\ pc[c] \in {"release", "cleanup"}
  /\ activeLocks[req[c].resourceId] = lockIdOf(req[c].acquireResult)
  /\ req' = [req EXCEPT ![c].releaseCalls = @ + 1]
  /\ pc' = [pc EXCEPT ![c] = "releasing"]
  /\ UNCHANGED <<now, store, result, redVars>>
  /\ UNCHANGED others

\* RedLock.release, lines 416-444: lock.release() resolved (ok) or rejected;
\* either way the key is deleted from activeLocks and a result is returned
RlReleaseSettles(c, ok, applied) ==
  /\ route = "redlock" /\ pc[c] = "releasing"
  /\ LET r == req[c].resourceId
         x == RELEASE_SCRIPT(store[r], req[c].lockId)
     IN /\ store' = [store EXCEPT ![r] = IF ok \/ applied THEN x.rec ELSE @]
        /\ activeLocks' = IF ok THEN [activeLocks EXCEPT ![r] = NoToken]
                          ELSE deleteOnReleaseError(activeLocks, r)
  /\ req' = [req EXCEPT ![c].expireAt = 0, ![c].durationMs = 0,
                        ![c].releaseResult =
                           IF ok THEN "released" ELSE "rejected"]
  /\ result' = [result EXCEPT ![c] = Append(@, AfterRelease(c))]
  /\ pc' = [pc EXCEPT ![c] = "done"]
  /\ UNCHANGED <<now, route, sd>>
  /\ UNCHANGED others

\* RedLock.shutdown, lines 482-487: the continuation of
\* `await Promise.allSettled(releasePromises)`; it runs in the step in which
\* the last release settles.  activeLocks.clear() and redlock.quit() are
\* called; dropped records the Locks that were in the map at clear() and
\* for which no release was sent
ShutdownResume ==
  /\ sd' = [pc |-> "quitting", pending |-> {}, attempted |-> {},
            dropped |-> Tracked \ sd.attempted]
  /\ activeLocks' = [r \in Resources |-> NoToken]

\* RedLock.shutdown, lines 478-480: lock.release() is sent for every Lock
\* in activeLocks; with no Lock there is nothing to wait for
ShutdownStart ==
  /\ route = "redlock" /\ sd.pc = "running"
  /\ IF Tracked = {}
       THEN ShutdownResume
       ELSE /\ sd' = [sd EXCEPT !.pc = "releasing", !.pending = Tracked,
                                !.attempted = Tracked]
            /\ activeLocks' = activeLocks
  /\ UNCHANGED <<vars, route>>
  /\ UNCHANGED others

\* line 479: one of those releases resolves (ok) or rejects; .catch logs the
\* error, and the promise counts as settled
ShutdownReleaseSettles(t, ok, applied) ==
  /\ sd.pc = "releasing" /\ t \in sd.pending
  /\ LET r == req[t].resourceId
         x == RELEASE_SCRIPT(store[r], t)
     IN store' = [store EXCEPT ![r] = IF ok \/ applied THEN x.rec ELSE @]
  /\ IF sd.pending = {t}
       THEN ShutdownResume
       ELSE /\ sd' = [sd EXCEPT !.pending = @ \ {t}]
            /\ activeLocks' = activeLocks
  /\ UNCHANGED <<now, pc, req, result, route>>
  /\ UNCHANGED others

\* line 487: redlock.quit() resolved, the connections are closed
ShutdownQuit ==
  /\ sd.pc = "quitting"
  /\ sd' = [sd EXCEPT !.pc = "done"]
  /\ UNCHANGED <<vars, route, activeLocks>>
  /\ UNCHANGED others

\* the server started with either route under test
LockInit ==
  /\ now = 0
  /\ store = [r \in Resources |-> NoRecord]
  /\ pc = [c \in Callers |-> "idle"]
  /\ req = [c \in Callers |-> NoReq]
  /\ result = [c \in Callers |-> << >>]
  /\ route \in {"simple", "redlock"}
  /\ RedLockInit
  /\ QuorumInit
  /\ LimiterInit
  /\ MiddlewareInit
  /\ StampedeInit
  /\ ServiceInit

Failing == 0..instanceCount

\* the requests of the simple route
SimpleNext ==
  \/ \E c \in Callers, d \in Durations : route = "simple" /\ AcquireSet(c, d)
  \/ \E c \in Callers, applied \in BOOLEAN :
        route = "simple" /\ AcquireSetError(c, applied)
  \/ \E c \in Callers : route = "simple" /\ AcquirePttl(c)
  \/ \E c \in Callers : route = "simple" /\ AcquirePttlError(c)
  \/ \E c \in Callers : route = "simple" /\ ReleaseAfterOperation(c)
  \/ \E c \in Callers, applied \in BOOLEAN :
        route = "simple" /\ ReleaseAfterOperationError(c, applied)
  \/ \E c \in Callers : route = "simple" /\ ReleaseInCatch(c)
  \/ \E c \in Callers, applied \in BOOLEAN :
        route = "simple" /\ ReleaseInCatchError(c, applied)

\* the requests of the redlock route
RedLockNext ==
  \/ \E c \in Callers, k \in Failing, d \in Durations : RlAcquireResolves(c, k, d)
  \/ \E c \in Callers, k \in Failing : RlAcquireRejects(c, k)
  \/ \E c \in Callers : RlReleaseUntracked(c)
  \/ \E c \in Callers : RlReleaseStart(c)
  \/ \E c \in Callers, ok, applied \in BOOLEAN : RlReleaseSettles(c, ok, applied)

\* what both routes share: the clock, the arrival of a request and the
\* protected operation
SharedNext ==
  \/ Tick
  \/ \E c \in Callers, r \in Resources : Call(c, r)
  \/ \E c \in Callers : FinishOperation(c)
  \/ \E c \in Callers : ThrowOperation(c)

\* the running server, either route
LockNext == SharedNext \/ SimpleNext \/ RedLockNext

LockSpec == LockInit /\ [][LockNext]_<<vars, redVars>>

\* the server, either route, serving requests for two resources
SeveralResources == {1, 2}

\* getLockKey: `${this.keyPrefix}${resource}`
getLockKey(resource) == "distributed-lock:" \o ToString(resource)

IndependenceInit ==
  /\ now = 0
  /\ store = [r \in SeveralResources |-> NoRecord]
  /\ pc = [c \in Callers |-> "idle"]
  /\ req = [c \in Callers |-> NoReq]
  /\ result = [c \in Callers |-> << >>]
  /\ route \in {"simple", "redlock"}
  /\ activeLocks = [r \in SeveralResources |-> NoToken]
  /\ sd = NoShutdown
  /\ QuorumInit
  /\ LimiterInit
  /\ MiddlewareInit
  /\ StampedeInit
  /\ ServiceInit

IndependenceNext ==
  \/ Tick
  \/ \E c \in Callers, r \in SeveralResources : Call(c, r)
  \/ \E c \in Callers : FinishOperation(c)
  \/ \E c \in Callers : ThrowOperation(c)
  \/ SimpleNext
  \/ RedLockNext

IndependenceSpec == IndependenceInit /\ [][IndependenceNext]_<<vars, redVars>>

\* the server of the redlock route receives SIGTERM while it serves requests
ShutdownInit ==
  /\ now = 0
  /\ store = [r \in Resources |-> NoRecord]
  /\ pc = [c \in Callers |-> "idle"]
  /\ req = [c \in Callers |-> NoReq]
  /\ result = [c \in Callers |-> << >>]
  /\ route = "redlock"
  /\ RedLockInit
  /\ QuorumInit
  /\ LimiterInit
  /\ MiddlewareInit
  /\ StampedeInit
  /\ ServiceInit

ShutdownNext ==
  \/ SharedNext
  \/ RedLockNext
  \/ ShutdownStart
  \/ \E t \in Callers, ok, applied \in BOOLEAN : ShutdownReleaseSettles(t, ok, applied)
  \/ ShutdownQuit

ShutdownSpec == ShutdownInit /\ [][ShutdownNext]_<<vars, redVars>>

\* ---- the Redlock algorithm (lock guide, acquireRedlock) ------------------
\* everything of the distributed-lock server except the clock
serverVars == <<store, pc, req, result, redVars>>

\* a majority computed without the + 1
quorumHalf == instanceCount \div 2

\* const quorum = Math.floor(instances.length / 2) + 1
quorum == (instanceCount \div 2) + 1

\* const validityTime = ttl - elapsedTime - CLOCK_DRIFT_FACTOR, in 1/100 ms
validityTimeX100(ttl, elapsedTime) ==
  100 * (ttl - elapsedTime) - CLOCK_DRIFT_FACTOR_X100

\* the else branch returning without releaseRedlock
returnWithoutRelease == "failed"

\* the else branch: await releaseRedlock(resource, lockId, instances)
releaseAll == "release"

\* acquireRedlock is called: lockId and startTime are taken, the loop starts
\* with the first instance
QStart(c) ==
  /\ qc[c].pc = "idle"
  /\ qc' = [qc EXCEPT ![c] =
       [NoAttempt EXCEPT !.pc = "acquire", !.lockId = generateUniqueLockId(c),
                         !.startTime = now, !.i = 1]]
  /\ UNCHANGED <<now, inst, serverVars, limiterVars, mw, stampedeVars, serviceVars>>

\* the loop has tried instance qc[c].i and counted `count` successes: it moves
\* on to the next instance, or leaves the loop and decides (step 2)
QAfterInstance(c, count) ==
  IF qc[c].i < instanceCount
    THEN qc' = [qc EXCEPT ![c].i = @ + 1, ![c].acquiredCount = count]
    ELSE LET validity == validityTimeX100(redlockTtl, now - qc[c].startTime)
         IN IF count >= quorum /\ validity > 0
              THEN qc' = [qc EXCEPT ![c].pc = "acquired",
                                    ![c].i = 0,
                                    ![c].startTime = 0,
                                    ![c].acquiredCount = count,
                                    ![c].validUntilX100 = 100 * now + validity]
              ELSE qc' = [qc EXCEPT ![c].pc = releaseAll,
                                    ![c].i = IF releaseAll = "release"
                                               THEN 1 ELSE 0,
                                    ![c].startTime = 0,
                                    ![c].acquiredCount = count]

\* redis.set(key, lockId, 'PX', ttl, 'NX') answered by instance i
QSet(c) ==
  /\ qc[c].pc = "acquire"
  /\ LET b == qc[c].i
         s == SetNxPx(inst[b], qc[c].lockId, redlockTtl, now)
     IN /\ inst' = [inst EXCEPT ![b] = s.rec]
        /\ QAfterInstance(c, qc[c].acquiredCount +
                               (IF s.reply = "OK" THEN 1 ELSE 0))
  /\ UNCHANGED <<now, serverVars, limiterVars, mw, stampedeVars, serviceVars>>

\* the catch block leaving the loop: the sweep ends at the first instance
\* that errors
QSetErrorAborts(c) ==
  /\ qc[c].pc = "acquire"
  /\ qc' = [qc EXCEPT ![c].pc = "release", ![c].i = 1, ![c].startTime = 0]
  /\ UNCHANGED <<now, inst, serverVars, limiterVars, mw, stampedeVars, serviceVars>>

\* the set rejects: catch, "Instance unreachable, continue to next"
QSetError(c) ==
  /\ qc[c].pc = "acquire"
  /\ QAfterInstance(c, qc[c].acquiredCount)
  /\ UNCHANGED <<now, inst, serverVars, limiterVars, mw, stampedeVars, serviceVars>>

\* what the release of all instances ends in: { success: false } after a
\* failed acquisition, the end of the session after a successful one
Released(c) == IF qc[c].validUntilX100 > 0 THEN "released" ELSE "failed"

\* a release that gives up at the first instance it cannot reach
QAfterReleaseStops(c, reached) ==
  qc' = [qc EXCEPT
    ![c].rolledBack = @ /\ reached,
    ![c].i = IF qc[c].i < instanceCount /\ reached THEN @ + 1 ELSE 0,
    ![c].pc = IF qc[c].i < instanceCount /\ reached
                THEN "release" ELSE Released(c)]

\* releaseRedlock has dealt with instance qc[c].i and goes on to the next;
\* after the last instance it returns.  rolledBack tells whether every
\* instance holding the record was reached so far
QAfterRelease(c, reached) ==
  qc' = [qc EXCEPT
    ![c].rolledBack = @ /\ reached,
    ![c].i = IF qc[c].i < instanceCount THEN @ + 1 ELSE 0,
    ![c].pc = IF qc[c].i < instanceCount THEN "release" ELSE Released(c)]

\* the holder is done with the resource and releases its session: the
\* release starts with the first instance
QUnlock(c) ==
  /\ qc[c].pc = "acquired"
  /\ qc' = [qc EXCEPT ![c].pc = "release", ![c].i = 1]
  /\ UNCHANGED <<now, inst, serverVars, limiterVars, mw, stampedeVars, serviceVars>>

\* releaseRedlock: the ownership-checking script answered by instance i
QRelease(c) ==
  /\ qc[c].pc = "release"
  /\ LET b == qc[c].i
         x == RELEASE_SCRIPT(inst[b], qc[c].lockId)
     IN inst' = [inst EXCEPT ![b] = x.rec]
  /\ QAfterRelease(c, TRUE)
  /\ UNCHANGED <<now, serverVars, limiterVars, mw, stampedeVars, serviceVars>>

\* releaseRedlock: instance i is unreachable; the error is logged and the
\* release goes on with the next instance
QReleaseError(c) ==
  /\ qc[c].pc = "release"
  /\ QAfterRelease(c, inst[qc[c].i].value # qc[c].lockId)
  /\ UNCHANGED <<now, inst, serverVars, limiterVars, mw, stampedeVars, serviceVars>>

\* time passes on the clients and the instances; expired records vanish
QTick ==
  /\ now + TickMs <= MaxTime
  /\ now' = now + TickMs
  /\ inst' = [b \in Instances |-> Expire(inst[b], now + TickMs)]
  /\ UNCHANGED <<qc, serverVars, limiterVars, mw, stampedeVars, serviceVars>>

\* an instance crashes and restarts empty (no persistence)
QRestart(b) ==
  /\ inst[b] # NoRecord
  /\ inst' = [inst EXCEPT ![b] = NoRecord]
  /\ UNCHANGED <<now, qc, serverVars, limiterVars, mw, stampedeVars, serviceVars>>

QuorumNext ==
  \/ \E c \in Clients : QStart(c)
  \/ \E c \in Clients : QSet(c)
  \/ \E c \in Clients : QSetError(c)
  \/ \E c \in Clients : QUnlock(c)
  \/ \E c \in Clients : QRelease(c)
  \/ \E c \in Clients : QReleaseError(c)
  \/ QTick

\* instances that may be unreachable but keep their records
QuorumSpec == Init /\ [][QuorumNext]_<<now, quorumVars>>

RestartNext ==
  \/ QuorumNext
  \/ \E b \in Instances : QRestart(b)

\* instances that may also restart empty
RestartSpec == Init /\ [][RestartNext]_<<now, quorumVars>>

\* ---- SlidingWindowRateLimiter (rate-limiter app) -------------------------
RandomSuffixes == {0, 1}

Pow10(n) == IF n = 1 THEN 10 ELSE IF n = 2 THEN 100 ELSE 1000
Digits(n) == IF n < 10 THEN 1 ELSE IF n < 100 THEN 2 ELSE 3

\* `${now}${Math.floor(Math.random() * 1000)}`: the digits of now followed by
\* the digits of the suffix
Member(t, suffix) == t * Pow10(Digits(suffix)) + suffix

\* ZREMRANGEBYSCORE key 0 windowStart
ZRemRangeByScore(members, lo, hi) ==
  {m \in members : ~(lo <= m.score /\ m.score <= hi)}

\* ZADD key score member: a member already present gets the new score
ZAdd(members, score, member) ==
  {m \in members : m.member # member} \cup
    {[member |-> member, score |-> score]}

\* the key is gone once its EXPIRE time is reached
KeyAt(z, t) ==
  IF z.members # {} /\ z.expireAt <= t
    THEN [members |-> {}, expireAt |-> 0] ELSE z

\* Math.ceil(windowMs / 1000), the EXPIRE argument in seconds
expireSeconds == (windowMs + 999) \div 1000

\* acquirePermit, lines 22-25: now = Date.now()
PermitCall(c) ==
  /\ lim[c].pc = "idle"
  /\ Len(allowedAt) < MaxPermits
  /\ lim' = [lim EXCEPT ![c] = [pc |-> "count", now |-> now,
                                currentCount |-> 0]]
  /\ UNCHANGED <<now, zset, allowedAt, serverVars, quorumVars, stampedeVars, serviceVars>>

\* lines 27-45: the first pipeline (ZREMRANGEBYSCORE, ZCARD) is executed and
\* the count is compared with the limit; at the limit the call returns
\* allowed = false
PermitCount(c) ==
  /\ lim[c].pc = "count"
  /\ LET z == KeyAt(zset, now)
         kept == ZRemRangeByScore(z.members, 0, lim[c].now - windowMs)
         currentCount == Cardinality(kept)
     IN /\ zset' = [z EXCEPT !.members = kept]
        /\ lim' = [lim EXCEPT ![c] =
             IF currentCount >= maxRequests
               THEN NoPermitCall
               ELSE [@ EXCEPT !.pc = "add", !.currentCount = currentCount]]
  /\ UNCHANGED <<now, allowedAt, serverVars, quorumVars, stampedeVars, serviceVars>>

\* lines 47-60: the second pipeline (ZADD, EXPIRE) is executed and the call
\* returns allowed = true
PermitAdd(c, suffix) ==
  /\ lim[c].pc = "add"
  /\ LET z == KeyAt(zset, now)
     IN zset' = [members |-> ZAdd(z.members, lim[c].now,
                                  Member(lim[c].now, suffix)),
                 expireAt |-> now + expireSeconds * 1000]
  /\ allowedAt' = Append(allowedAt, lim[c].now)
  /\ lim' = [lim EXCEPT ![c] = NoPermitCall]
  /\ UNCHANGED <<now, serverVars, quorumVars, stampedeVars, serviceVars>>

\* time passes
LimiterTick ==
  /\ now + TickMs <= MaxTime
  /\ now' = now + TickMs
  /\ zset' = KeyAt(zset, now + TickMs)
  /\ UNCHANGED <<lim, allowedAt, serverVars, quorumVars, stampedeVars, serviceVars>>

\* acquirePermit called directly, any number of calls under way at once
LimiterNext ==
  \/ \E c \in Callers : PermitCall(c) /\ UNCHANGED mw
  \/ \E c \in Callers : PermitCount(c) /\ UNCHANGED mw
  \/ \E c \in Callers, suffix \in RandomSuffixes :
        PermitAdd(c, suffix) /\ UNCHANGED mw
  \/ LimiterTick /\ UNCHANGED mw

LimiterSpec == Init /\ [][LimiterNext]_<<now, limiterVars>>

\* one request after the other: a call starts when no other call is under way
SequentialNext ==
  \/ \E c \in Callers :
        /\ \A d \in Callers : lim[d].pc = "idle"
        /\ PermitCall(c) /\ UNCHANGED mw
  \/ \E c \in Callers : PermitCount(c) /\ UNCHANGED mw
  \/ \E c \in Callers, suffix \in RandomSuffixes :
        PermitAdd(c, suffix) /\ UNCHANGED mw
  \/ LimiterTick /\ UNCHANGED mw

SequentialSpec == Init /\ [][SequentialNext]_<<now, limiterVars>>

\* ---- createRateLimitMiddleware (rate-limiter app, middleware.ts) ----------
\* a pipeline of acquirePermit rejects, or exec() of the first one resolves
\* with null (line 33): acquirePermit throws.  The store may have executed
\* the ZADD of the second pipeline before the error
PermitThrows(c, applied) ==
  /\ lim[c].pc \in {"count", "add"}
  /\ zset' = IF lim[c].pc = "add" /\ applied
               THEN [members |-> ZAdd(KeyAt(zset, now).members, lim[c].now,
                                      Member(lim[c].now, 0)),
                     expireAt |-> now + expireSeconds * 1000]
               ELSE zset
  /\ lim' = [lim EXCEPT ![c] = NoPermitCall]
  /\ UNCHANGED <<now, allowedAt, serverVars, quorumVars, stampedeVars, serviceVars>>

\* a catch block that answers 429 and does not call next
failClosed(m) ==
  [m EXCEPT !.pc = "done", !.permit = "threw", !.status = 429]

\* middleware.ts, lines 37-40: catch (error) { console.error; next() }
failOpen(m) ==
  [m EXCEPT !.pc = "done", !.permit = "threw", !.nextCalls = @ + 1]

\* lines 22-28: res.status(429).json(...); return
tooManyRequests(m) ==
  [m EXCEPT !.pc = "done", !.permit = "denied", !.status = 429]

\* lines 31-36: the rate-limit headers are set and next() is called
passOn(m) ==
  [m EXCEPT !.pc = "done", !.permit = "allowed", !.headers = TRUE,
            !.nextCalls = @ + 1]

\* lines 16-20: a request arrives and the middleware calls acquirePermit
MwRequest(c) ==
  /\ mw[c].pc \in {"idle", "done"}
  /\ PermitCall(c)
  /\ mw' = [mw EXCEPT ![c] = [NoAnswer EXCEPT !.pc = "awaiting"]]

\* the first pipeline is answered; at the limit acquirePermit returns
\* allowed = false and the middleware answers 429
MwCount(c) ==
  /\ mw[c].pc = "awaiting"
  /\ PermitCount(c)
  /\ mw' = IF lim'[c].pc = "idle"
             THEN [mw EXCEPT ![c] = tooManyRequests(@)] ELSE mw

\* the second pipeline is answered, acquirePermit returns allowed = true
MwAdd(c, suffix) ==
  /\ mw[c].pc = "awaiting"
  /\ PermitAdd(c, suffix)
  /\ mw' = [mw EXCEPT ![c] = passOn(@)]

\* acquirePermit throws
MwThrows(c, applied) ==
  /\ mw[c].pc = "awaiting"
  /\ PermitThrows(c, applied)
  /\ mw' = [mw EXCEPT ![c] = failOpen(@)]

MiddlewareNext ==
  \/ \E c \in Callers : MwRequest(c)
  \/ \E c \in Callers : MwCount(c)
  \/ \E c \in Callers, suffix \in RandomSuffixes : MwAdd(c, suffix)
  \/ \E c \in Callers, applied \in BOOLEAN : MwThrows(c, applied)

\* requests that arrive within one window
MiddlewareSpec == Init /\ [][MiddlewareNext]_<<limiterVars, mw>>

\* ---- StampedePreventionService (caching app) ------------------------------
\* everything but the cache service
notStampede == <<now, serverVars, quorumVars, limiterVars, mw, serviceVars>>

\* computeAndCache called without holding the lock: set in the fallbacks
Fallback(l) == [l EXCEPT !.pc = "compute"]

\* get, lines 135-149: GET of the cached data; a hit is returned at once
SGet(c) ==
  /\ sp[c].pc = "idle"
  /\ sp' = [sp EXCEPT ![c] =
       IF scache.data
         THEN [@ EXCEPT !.pc = "done", !.source = "cache"]
         ELSE [@ EXCEPT !.pc = "lock", !.miss = TRUE]]
  /\ UNCHANGED <<scache, sghost, notStampede>>

\* tryAcquireLock, lines 299-311: SET lockKey lockValue EX LOCK_TTL NX
tryAcquireLock(lock, lockValue) ==
  IF lock = NoToken
    THEN [acquired |-> TRUE, lock |-> lockValue]
    ELSE [acquired |-> FALSE, lock |-> lock]

\* get, lines 158-161 and 187-198: the winner goes on to compute, a loser to
\* waitForCacheReady
STryLock(c) ==
  /\ sp[c].pc = "lock"
  /\ LET a == tryAcquireLock(scache.lock, c)
     IN /\ scache' = [scache EXCEPT !.lock = a.lock]
        /\ sp' = [sp EXCEPT ![c].lockAcquired = a.acquired,
                            ![c].pc = IF a.acquired THEN "compute"
                                      ELSE "subscribe"]
  /\ UNCHANGED <<sghost, notStampede>>

\* computeAndCache, line 475: the expensive operation runs
SCompute(c) ==
  /\ sp[c].pc = "compute"
  /\ sghost' = [sghost EXCEPT !.computations = @ + 1]
  /\ sp' = [sp EXCEPT ![c].pc = "store", ![c].source = "computed"]
  /\ UNCHANGED <<scache, notStampede>>

\* computeAndCache, lines 479-484: SET cacheKey data EX DEFAULT_TTL
SStore(c) ==
  /\ sp[c].pc = "store"
  /\ scache' = [scache EXCEPT !.data = TRUE]
  /\ sp' = [sp EXCEPT ![c].pc = "publish"]
  /\ UNCHANGED <<sghost, notStampede>>

\* computeAndCache, lines 489-494: PUBLISH is delivered to every subscribed
\* connection; its 'message' event reaches the listener of waitForMessage
\* if one is attached and is dropped otherwise.  The winner then goes to
\* the finally block, a fallback caller returns
SPublish(c) ==
  /\ sp[c].pc = "publish"
  /\ sp' = [d \in Callers |->
       IF d = c
         THEN [sp[d] EXCEPT !.pc = IF sp[c].lockAcquired THEN "unlock"
                                   ELSE "done"]
         ELSE IF d \in scache.subscribers /\ sp[d].pc = "wait"
           THEN [sp[d] EXCEPT !.notified = TRUE]
           ELSE sp[d]]
  /\ UNCHANGED <<scache, sghost, notStampede>>

\* computeAndCache rejects: the operation (line 475), the SET (line 479) or
\* the PUBLISH (line 489) failed.  The winner goes to the finally block; a
\* fallback caller has no handler left and get rejects
SComputeThrows(c) ==
  /\ sp[c].pc \in {"compute", "store", "publish"}
  /\ sp' = [sp EXCEPT ![c].source = "error",
                      ![c].pc = IF sp[c].lockAcquired THEN "unlock"
                                ELSE "done"]
  /\ UNCHANGED <<scache, sghost, notStampede>>

\* a release that deletes the lock key whatever its value
releaseLockAnyValue(lock, lockValue) == NoToken

\* releaseLock, lines 325-336: the script deletes the lock key if it still
\* carries this call's value
releaseLock(lock, lockValue) == IF lock = lockValue THEN NoToken ELSE lock

\* get, lines 181-186: the finally block awaits releaseLock, then get
\* returns the computed data or rethrows
SUnlock(c) ==
  /\ sp[c].pc = "unlock"
  /\ scache' = [scache EXCEPT !.lock = releaseLock(@, c)]
  /\ sp' = [sp EXCEPT ![c].pc = "done"]
  /\ UNCHANGED <<sghost, notStampede>>

\* waitForCacheReady, lines 377-381: SUBSCRIBE on a duplicate connection
SSubscribe(c) ==
  /\ sp[c].pc = "subscribe"
  /\ scache' = [scache EXCEPT !.subscribers = @ \cup {c}]
  /\ sp' = [sp EXCEPT ![c].pc = "recheck", ![c].subscriber = "open"]
  /\ UNCHANGED <<sghost, notStampede>>

\* waitForCacheReady, line 384: the store executes the GET of the double
\* check and sends its reply
SRecheck(c) ==
  /\ sp[c].pc = "recheck"
  /\ sp' = [sp EXCEPT ![c].pc = "listen", ![c].cached = scache.data]
  /\ UNCHANGED <<scache, sghost, notStampede>>

\* waitForCacheReady, lines 385-393: the reply of the GET is handled; on a
\* hit the function returns through its finally block, else waitForMessage
\* attaches the listener and starts the timer (lines 429-441)
SListen(c) ==
  /\ sp[c].pc = "listen"
  /\ sp' = [sp EXCEPT ![c].pc = IF sp[c].cached THEN "cleanup" ELSE "wait"]
  /\ UNCHANGED <<scache, sghost, notStampede>>

\* waitForMessage, lines 435-441: the message reached the listener
SMessage(c) ==
  /\ sp[c].pc = "wait" /\ sp[c].notified
  /\ sp' = [sp EXCEPT ![c].pc = "cleanup"]
  /\ UNCHANGED <<scache, sghost, notStampede>>

\* waitForMessage, lines 430-433: MAX_WAIT_TIME elapsed without a message;
\* waitForCacheReady throws (line 399)
STimeout(c) ==
  /\ sp[c].pc = "wait" /\ ~sp[c].notified
  /\ sp' = [sp EXCEPT ![c].pc = "cleanup"]
  /\ sghost' = [sghost EXCEPT !.timedOut = TRUE]
  /\ UNCHANGED <<scache, notStampede>>

\* waitForCacheReady, lines 402-408: the finally block unsubscribes and
\* disconnects; get then reads the cache (line 202) or, after the timeout,
\* computes in its catch block (lines 237-241)
SCleanup(c) ==
  /\ sp[c].pc = "cleanup"
  /\ scache' = [scache EXCEPT !.subscribers = @ \ {c}]
  /\ sp' = [sp EXCEPT ![c] =
       IF sp[c].cached \/ sp[c].notified
         THEN [@ EXCEPT !.pc = "read", !.subscriber = "closed"]
         ELSE Fallback([@ EXCEPT !.subscriber = "closed"])]
  /\ UNCHANGED <<sghost, notStampede>>

\* waitForCacheReady, line 406: `await subscriber.unsubscribe(channelKey)`
\* rejects, so line 407, subscriber.disconnect(), is not reached and the
\* error goes to the catch block of get (lines 237-241)
SCleanupError(c) ==
  /\ sp[c].pc = "cleanup"
  /\ sp' = [sp EXCEPT ![c] = Fallback(@)]
  /\ UNCHANGED <<scache, sghost, notStampede>>

\* get, lines 202-236: the cache is read after the wait; if it is empty the
\* call computes
SRead(c) ==
  /\ sp[c].pc = "read"
  /\ sp' = [sp EXCEPT ![c] =
       IF scache.data
         THEN [@ EXCEPT !.pc = "done", !.source = "cache"]
         ELSE Fallback(@)]
  /\ UNCHANGED <<scache, sghost, notStampede>>

\* LOCK_TTL elapses while the lock key is set: the store removes it
SLockExpires ==
  /\ scache.lock # NoToken
  /\ scache' = [scache EXCEPT !.lock = NoToken]
  /\ sghost' = [sghost EXCEPT !.lockExpired = TRUE]
  /\ UNCHANGED <<sp, notStampede>>

StampedeNext ==
  \/ \E c \in Callers : SGet(c)
  \/ \E c \in Callers : STryLock(c)
  \/ \E c \in Callers : SCompute(c)
  \/ \E c \in Callers : SStore(c)
  \/ \E c \in Callers : SPublish(c)
  \/ \E c \in Callers : SUnlock(c)
  \/ \E c \in Callers : SSubscribe(c)
  \/ \E c \in Callers : SRecheck(c)
  \/ \E c \in Callers : SListen(c)
  \/ \E c \in Callers : SMessage(c)
  \/ \E c \in Callers : STimeout(c)
  \/ \E c \in Callers : SCleanup(c)
  \/ \E c \in Callers : SRead(c)
  \/ SLockExpires

StampedeSpec == Init /\ [][StampedeNext]_stampedeVars

\* the service when the computation and the commands of the store can fail
StampedeFaultNext ==
  \/ StampedeNext
  \/ \E c \in Callers : SComputeThrows(c)
  \/ \E c \in Callers : SCleanupError(c)

StampedeFaultSpec == Init /\ [][StampedeFaultNext]_stampedeVars

\* ---- new RedLock(options) (service.ts, RedLock constructor) ----------------
notService == <<now, serverVars, quorumVars, limiterVars, mw, stampedeVars>>

\* an option the caller left out
Absent == -1

\* options.x || d for a number: the default replaces undefined and 0
OrDefault(v, d) == IF v = Absent \/ v = 0 THEN d ELSE v
\* options.keyPrefix || d: the default replaces undefined and '' (both "")
PrefixOrDefault(v, d) == IF v = "" THEN d ELSE v
\* options.x ?? d: the default replaces undefined only
Nullish(v, d) == IF v = Absent THEN d ELSE v

\* the option values the model constructs a RedLock with
InstanceLists ==
  {[defined |-> FALSE, length |-> 0]} \cup
  {[defined |-> TRUE, length |-> n] : n \in 0..MaxInstances}
RedLockOptions ==
  [redisInstances : InstanceLists, keyPrefix : {"", "app:"},
   driftFactorX100 : {Absent, 2}, retryCount : {Absent, 0, 5},
   retryDelay : {Absent, 0, 100}, retryJitter : {Absent, 50},
   automaticExtensionThreshold : {Absent, 100}]

\* a constructor that turns an even number of instances away as well
tooFewOrEven(redisInstances) ==
  \/ ~redisInstances.defined
  \/ redisInstances.length < 3
  \/ redisInstances.length % 2 = 0

\* !options.redisInstances || options.redisInstances.length < 3
tooFew(redisInstances) ==
  ~redisInstances.defined \/ redisInstances.length < 3

\* the quorum the constructor reports: Math.floor(N / 2) + 1
reportedQuorum(n) == (n \div 2) + 1

\* the constructor: throws on fewer than 3 instances, warns on an even number,
\* then fills its fields and the settings of the Redlock client
NewRedLock(options) ==
  /\ built' =
       IF tooFew(options.redisInstances)
       THEN [given |-> options.redisInstances,
             error |-> "RedLock requires at least 3 Redis instances",
             warned |-> FALSE, object |-> [exists |-> FALSE]]
       ELSE [given |-> options.redisInstances, error |-> "none",
             warned |-> options.redisInstances.length % 2 = 0,
             object |->
               [exists |-> TRUE,
                keyPrefix |-> PrefixOrDefault(options.keyPrefix, "lock:"),
                activeLocks |-> {},
                instanceCount |-> options.redisInstances.length,
                driftFactorX100 |-> OrDefault(options.driftFactorX100, 1),
                retryCount |-> Nullish(options.retryCount, 3),
                retryDelay |-> OrDefault(options.retryDelay, 200),
                retryJitter |-> OrDefault(options.retryJitter, 200),
                automaticExtensionThreshold |->
                  OrDefault(options.automaticExtensionThreshold, 500),
                quorum |-> reportedQuorum(options.redisInstances.length)]]
  /\ UNCHANGED <<notService, rcache, rp, rghost, wq, wc>>

ConstructorNext == \E options \in RedLockOptions : NewRedLock(options)

ConstructorSpec == Init /\ [][ConstructorNext]_built

\* ---- RefreshAheadService (caching app) -------------------------------------
\* get, line 57: GET of the item
RGet(c) ==
  /\ rp[c].pc \in {"idle", "done"}
  /\ rp' = [rp EXCEPT ![c] = [pc |-> IF rcache.item # "none" THEN "ttl"
                                     ELSE "load",
                              cached |-> rcache.item # "none"]]
  /\ UNCHANGED <<rcache, rghost, notService, built, wq, wc>>

\* get, lines 60-86: TTL of the item; below the threshold the refresh is
\* started in the background and the cached value is returned at once
RTtl(c) ==
  /\ rp[c].pc = "ttl"
  /\ rp' = [rp EXCEPT ![c].pc = IF rcache.item = "stale" THEN "trylock"
                                ELSE "done"]
  /\ UNCHANGED <<rcache, rghost, notService, built, wq, wc>>

\* get, lines 89-104: a miss loads the data and stores it with the full TTL
RLoad(c) ==
  /\ rp[c].pc = "load"
  /\ rcache' = [rcache EXCEPT !.item = "fresh"]
  /\ rp' = [rp EXCEPT ![c].pc = "done"]
  /\ UNCHANGED <<rghost, notService, built, wq, wc>>

\* a refresh that starts whether or not the lock key is set
RTryLockAlways(c) ==
  /\ rp[c].pc = "trylock"
  /\ rcache' = [rcache EXCEPT !.lock = TRUE]
  /\ rp' = [rp EXCEPT ![c].pc = "refreshing"]
  /\ UNCHANGED <<rghost, notService, built, wq, wc>>

\* triggerBackgroundRefresh, lines 184-203: SET lockKey NX EX LOCK_TTL; when
\* the key is already set the refresh is skipped
RTryLock(c) ==
  /\ rp[c].pc = "trylock"
  /\ rcache' = [rcache EXCEPT !.lock = TRUE]
  /\ rp' = [rp EXCEPT ![c].pc = IF rcache.lock THEN "done" ELSE "refreshing"]
  /\ UNCHANGED <<rghost, notService, built, wq, wc>>

\* triggerBackgroundRefresh, lines 205-217: the data is loaded and stored
\* with the full TTL (ok), or the load or the SETEX throws
RRefresh(c, ok) ==
  /\ rp[c].pc = "refreshing"
  /\ rcache' = [rcache EXCEPT !.item = IF ok THEN "fresh" ELSE @]
  /\ rp' = [rp EXCEPT ![c].pc = "release"]
  /\ UNCHANGED <<rghost, notService, built, wq, wc>>

\* triggerBackgroundRefresh, lines 218-223: finally DEL lockKey
RRelease(c) ==
  /\ rp[c].pc = "release"
  /\ rcache' = [rcache EXCEPT !.lock = FALSE]
  /\ rp' = [rp EXCEPT ![c].pc = "done"]
  /\ UNCHANGED <<rghost, notService, built, wq, wc>>

\* LOCK_TTL (line 34) elapses while the lock key is set: the store removes it
RLockExpires ==
  /\ rcache.lock
  /\ rcache' = [rcache EXCEPT !.lock = FALSE]
  /\ rghost' = [rghost EXCEPT !.lockExpired = TRUE]
  /\ UNCHANGED <<rp, notService, built, wq, wc>>

\* the TTL of the item runs down: below the threshold (line 61), then gone
RAge ==
  /\ rcache.item # "none"
  /\ rcache' = [rcache EXCEPT !.item = IF @ = "fresh" THEN "stale" ELSE "none"]
  /\ UNCHANGED <<rp, rghost, notService, built, wq, wc>>

RefreshNext ==
  \/ \E c \in Callers : RGet(c)
  \/ \E c \in Callers : RTtl(c)
  \/ \E c \in Callers : RLoad(c)
  \/ \E c \in Callers : RTryLock(c)
  \/ \E c \in Callers, ok \in BOOLEAN : RRefresh(c, ok)
  \/ \E c \in Callers : RRelease(c)
  \/ RLockExpires
  \/ RAge

RefreshSpec == Init /\ [][RefreshNext]_<<rcache, rp, rghost>>

\* ---- WriteBehindService and WriteBehindConsumer (caching app) --------------
Consumers == 1..NUM_CONSUMERS

\* XCLAIM ids to consumer: the pending entries named become the consumer's
XClaim(q, ids, consumer) ==
  [i \in DOMAIN q |->
     IF i \in ids /\ q[i].state = "pending"
       THEN [q[i] EXCEPT !.owner = consumer] ELSE q[i]]

\* XGROUP DELCONSUMER: the consumer is removed from the group together with
\* its pending entries; the messages stay in the stream, delivered, in no
\* pending list
DelConsumer(q, consumer) ==
  [i \in DOMAIN q |->
     IF q[i].state = "pending" /\ q[i].owner = consumer
       THEN [state |-> "unclaimable", owner |-> 0] ELSE q[i]]

\* write, lines 104-151: SET of the cache key, then XADD to the queue
WWrite ==
  /\ Len(wq) < MaxWrites
  /\ wq' = Append(wq, [state |-> "new", owner |-> 0])
  /\ UNCHANGED <<wc, notService, built, rcache, rp, rghost>>

\* initializeWorker, lines 80-86 and start, lines 297-302: the start timer
\* of the consumer fires and the polling interval is set
WStart(k) ==
  /\ ~wc[k].timerFired
  /\ wc' = [wc EXCEPT ![k].timerFired = TRUE, ![k].interval = TRUE]
  /\ UNCHANGED <<wq, notService, built, rcache, rp, rghost>>

\* processQueue, lines 372-397: XREADGROUP COUNT 2 with id '>' delivers up
\* to two messages never delivered before and enters them in the consumer's
\* pending list; with none the call returns
WRead(k) ==
  /\ wc[k].interval /\ ~wc[k].isProcessing
  /\ LET new == {i \in DOMAIN wq : wq[i].state = "new"}
         got == {i \in new : Cardinality({j \in new : j < i}) < 2}
     IN /\ wq' = [i \in DOMAIN wq |->
                    IF i \in got THEN [state |-> "pending", owner |-> k]
                    ELSE wq[i]]
        /\ wc' = [wc EXCEPT ![k].isProcessing = got # {}, ![k].batch = got]
  /\ UNCHANGED <<notService, built, rcache, rp, rghost>>

\* processQueue, lines 401-432: the next message of the batch is processed
\* and acknowledged with XACK (ok), or processing or the XACK throws and the
\* error is logged; after the last message isProcessing is reset
WProcess(k, ok) ==
  /\ wc[k].isProcessing /\ wc[k].batch # {}
  /\ LET i == CHOOSE m \in wc[k].batch : \A j \in wc[k].batch : m <= j
     IN /\ wq' = [wq EXCEPT ![i] = IF ok /\ @.state = "pending"
                                     THEN [state |-> "acked", owner |-> 0]
                                     ELSE @]
        /\ wc' = [wc EXCEPT ![k].batch = @ \ {i},
                            ![k].isProcessing = wc[k].batch # {i}]
  /\ UNCHANGED <<notService, built, rcache, rp, rghost>>

\* stop, lines 308-367: the interval is cleared and, once isProcessing is
\* false, the consumer's pending messages are listed, claimed for this same
\* consumer and the consumer is deleted from the group
WStop(k) ==
  /\ ~wc[k].stopped /\ ~wc[k].isProcessing
  /\ LET pending == {i \in DOMAIN wq :
                       wq[i].state = "pending" /\ wq[i].owner = k}
     IN wq' = DelConsumer(XClaim(wq, pending, k), k)
  /\ wc' = [wc EXCEPT ![k].interval = FALSE, ![k].stopped = TRUE]
  /\ UNCHANGED <<notService, built, rcache, rp, rghost>>

WriteBehindNext ==
  \/ WWrite
  \/ \E k \in Consumers : WStart(k)
  \/ \E k \in Consumers : WRead(k)
  \/ \E k \in Consumers, ok \in BOOLEAN : WProcess(k, ok)
  \/ \E k \in Consumers : WStop(k)

WriteBehindSpec == Init /\ [][WriteBehindNext]_<<wq, wc>>

\* ---- helpers of the properties ------------------------------------------
Holding == {"operating", "release", "cleanup"}
SameResource(a, b) == a # b /\ req[a].resourceId = req[b].resourceId
ReturnedBusy(c) == "retryAfter" \in DOMAIN req[c].acquireResult
ReleaseStep(c) ==
  pc[c] \in {"release", "cleanup"} /\ req'[c].releaseCalls = req[c].releaseCalls + 1
OwnToken(c) == lockIdOf(req[c].acquireResult)

\* C1: single-broker mutual exclusion.  An acquire returns success only in a
\* step in which the resource has no unexpired record, and that step creates
\* the record with the caller's lock id; while an unexpired record exists the
\* conditional set of every other acquire is refused, leaves the record
\* untouched and the acquire does not return success.
C1_OneWinnerPerEpoch ==
  [][\A c \in Callers :
       (pc[c] = "acquire" /\ pc'[c] # "acquire") =>
         LET r == req[c].resourceId IN
         /\ req'[c].acquireResult.success =>
              /\ store[r] = NoRecord
              /\ store'[r].value = req[c].lockId
              /\ \A d \in Callers \ {c} : req[d].lockId # req[c].lockId
         /\ store[r] # NoRecord =>
              /\ ~req'[c].acquireResult.success
              /\ store'[r] = store[r]]_vars

\* C1 witness: one caller holds the unexpired record of a resource and another
\* caller's acquire for the same resource was returned as busy.
C1_Witness ==
  \E a, b \in Callers :
    /\ SameResource(a, b)
    /\ pc[a] \in Holding /\ req[a].acquireResult.success
    /\ store[req[a].resourceId].value = req[a].lockId
    /\ pc[b] = "done" /\ ReturnedBusy(b)

\* C2: release never deletes a different holder's record.  A release step
\* changes the record only when the stored value equals the caller's token,
\* and then removes it; when the stored value differs the record stays as it
\* is and the release does not report success.
C2_ReleaseOnlyOwnRecord ==
  [][\A c \in Callers :
       ReleaseStep(c) =>
         LET r == req[c].resourceId IN
         /\ store'[r] # store[r] =>
              store[r].value = OwnToken(c) /\ store'[r] = NoRecord
         /\ req'[c].releaseResult = "released" => store[r].value = OwnToken(c)
         /\ (store[r] # NoRecord /\ store[r].value # OwnToken(c)) =>
              store'[r] = store[r] /\ req'[c].releaseResult # "released"]_vars

\* C2 witness: holder a's lock expired, b acquired the resource, and a's late
\* release came back with success = false while b's record is in the broker.
C2_Witness ==
  \E a, b \in Callers :
    /\ SameResource(a, b)
    /\ pc[a] = "done" /\ req[a].acquireResult.success
    /\ req[a].releaseResult = "notReleased"
    /\ pc[b] \in Holding /\ req[b].acquireResult.success
    /\ store[req[b].resourceId].value = req[b].lockId

\* C3: self-healing.  No record outlives its TTL; once the TTL requested by a
\* holder has elapsed its record is gone, whether or not the holder released
\* (in particular when it crashed); and a conditional set is refused only
\* while a record is present, so an acquire made after that time succeeds.
C3_SelfHealing ==
  /\ [](\A r \in Resources : store[r] # NoRecord => now < store[r].expireAt)
  /\ [](\A c \in Callers, r \in Resources :
          (req[c].resourceId = r /\ pc[c] \in Holding \cup {"crashed"}
             /\ req[c].expireAt <= now) => store[r].value # OwnToken(c))
  /\ [][\A c \in Callers :
          (pc[c] = "acquire" /\ pc'[c] = "pttl") =>
             store[req[c].resourceId] # NoRecord]_vars

\* C3 witness: a crashed holder never released, and another caller has since
\* acquired the same resource.
C3_Witness ==
  \E a, b \in Callers :
    /\ SameResource(a, b)
    /\ pc[a] = "crashed" /\ req[a].acquireResult.success
    /\ req[a].releaseCalls = 0 /\ req[a].expireAt <= now
    /\ req[b].acquireResult.success
    /\ store[req[b].resourceId].value = req[b].lockId

InOperation(c) == pc[c] = "operating"
Unexpired(c) == now < req[c].expireAt
Returned(c) == pc[c] = "done"
TheResult(c) == result[c][1]

C5_ReleaseExactlyOnce ==
  \A c \in Callers :
    (Returned(c) /\ req[c].acquireResult.success) => req[c].releaseCalls = 1

\* C6: if the protected action succeeded, the call reports Completed
\* (success = true with durationMs) whatever the release did.
C6_CompletedWhenActionSucceeded ==
  \A c \in Callers :
    (Returned(c) /\ req[c].opResult = "ok") =>
       /\ Len(result[c]) = 1
       /\ TheResult(c).success
       /\ "durationMs" \in DOMAIN TheResult(c)
       /\ TheResult(c).durationMs \in Durations

\* C7: if the protected action fails after a successful acquire, the call
\* returns Failed (success = false, neither retryAfterMs nor durationMs), one
\* release has been attempted, and an error raised by that release neither
\* changes the result nor leaves the call: once the action has failed the
\* call is in the handler or has returned.
C7_FailedActionStillReleases ==
  \A c \in Callers :
    /\ (Returned(c) /\ req[c].opResult = "threw") =>
         /\ result[c] = << OperationFailed(req[c].resourceId) >>
         /\ ~TheResult(c).success
         /\ "retryAfterMs" \notin DOMAIN TheResult(c)
         /\ "durationMs" \notin DOMAIN TheResult(c)
         /\ req[c].releaseCalls = 1
    /\ req[c].opResult = "threw" => pc[c] \in {"cleanup", "done"}

\* C7 witness: the action threw and the release attempted afterwards raised a
\* broker error, and the call has returned.
C7_Witness ==
  \E c \in Callers :
    /\ Returned(c) /\ req[c].opResult = "threw"
    /\ req[c].releaseResult = "threw"

\* C8: a call whose acquire did not succeed returns Conflicted (success =
\* false with retryAfterMs) in the step in which acquire returns, never runs
\* performOperation and never calls release.
C8_ConflictReturnsImmediately ==
  \A c \in Callers :
    /\ ReturnedBusy(c) =>
         /\ Returned(c)
         /\ result[c] = << Conflicted(req[c].resourceId,
                                      req[c].acquireResult.retryAfter) >>
         /\ HttpStatus(TheResult(c)) = 409
    /\ ~req[c].acquireResult.success =>
         /\ req[c].opCalls = 0 /\ req[c].releaseCalls = 0
         /\ pc[c] \notin Holding

\* C8 witness: a call was refused by the broker and has returned.
C8_Witness ==
  \E c \in Callers :
    /\ Returned(c) /\ ReturnedBusy(c)
    /\ req[c].acquireResult.retryAfter > 0

\* C9: a broker error during acquire, on the conditional set or on the
\* remaining-TTL read, is raised by acquire; the call returns Failed without
\* retryAfterMs (status 500, never 409) and the protected action is not run.
C9_BrokerErrorOnAcquire ==
  \A c \in Callers :
    req[c].acquireError # "none" =>
      /\ req[c].acquireThrew
      /\ ~req[c].acquireResult.success /\ ~ReturnedBusy(c)
      /\ Returned(c)
      /\ result[c] = << LockError(req[c].resourceId) >>
      /\ "retryAfterMs" \notin DOMAIN TheResult(c)
      /\ HttpStatus(TheResult(c)) = 500
      /\ req[c].opCalls = 0 /\ req[c].releaseCalls = 0

\* C9 witness: one call met a broker error on the conditional set and another
\* on the remaining-TTL read.
C9_Witness ==
  \E a, b \in Callers :
    /\ req[a].acquireError = "set" /\ Returned(a)
    /\ req[b].acquireError = "pttl" /\ Returned(b)

\* C12: HTTP mapping.  Every returned request has exactly one result, and the
\* router answers it with 200 exactly when the result has success = true,
\* with 409 exactly when it is a failure carrying retryAfterMs, and with 500
\* otherwise; the Retry-After header of a 409 is the retry hint in seconds
\* rounded up, and it is at least 1.
C12_HttpMapping ==
  \A c \in Callers :
    Returned(c) =>
      LET res == TheResult(c)
          status == HttpStatus(res)
      IN /\ Len(result[c]) = 1
         /\ status \in {200, 409, 500}
         /\ status = 200 <=> res.success
         /\ status = 409 <=> (~res.success /\ ReturnedBusy(c))
         /\ status = 500 <=> (~res.success /\ ~ReturnedBusy(c))
         /\ status = 409 =>
              LET h == RetryAfterHeader(res) IN
              /\ res.retryAfterMs = req[c].acquireResult.retryAfter
              /\ h >= 1
              /\ (h - 1) * 1000 < res.retryAfterMs
              /\ res.retryAfterMs <= h * 1000

\* C12 witness: a refused request was answered 409 with a retry hint that is
\* not a whole number of seconds, while another request was answered 200.
C12_Witness ==
  \E a, b \in Callers :
    /\ Returned(a) /\ HttpStatus(TheResult(a)) = 409
    /\ TheResult(a).retryAfterMs % 1000 # 0
    /\ Returned(b) /\ HttpStatus(TheResult(b)) = 200

OutcomeShape(res) ==
  IF res.success
    THEN IF "durationMs" \in DOMAIN res /\ "retryAfterMs" \notin DOMAIN res
           THEN "Completed" ELSE "none"
    ELSE IF "durationMs" \in DOMAIN res THEN "none"
         ELSE IF "retryAfterMs" \in DOMAIN res THEN "Conflicted"
         ELSE "Failed"

\* C17: the orchestrator is total.  Whatever acquire, the action and release
\* did (returned, refused or raised an error), a call that has ended has
\* produced exactly one outcome, of exactly one of the shapes Completed,
\* Conflicted and Failed; a call that has not ended has produced none, and
\* no step takes an outcome back or adds a second one.
C17_OrchestratorTotal ==
  /\ [](\A c \in Callers :
          /\ Returned(c) =>
                /\ Len(result[c]) = 1
                /\ OutcomeShape(TheResult(c)) \in
                      {"Completed", "Conflicted", "Failed"}
          /\ pc[c] \in Holding \cup {"acquire", "pttl", "crashed"} =>
                result[c] = << >>)
  /\ [][\A c \in Callers :
          (pc[c] # "idle" /\ pc'[c] # pc[c]) =>
             (pc'[c] = "done" <=> Len(result'[c]) = 1)]_vars

\* C17 witness: acquire succeeded, the action returned, and both release
\* attempts raised a broker error; the call still ended with one outcome.
C17_Witness ==
  \E c \in Callers :
    /\ Returned(c) /\ req[c].opResult = "ok"
    /\ req[c].releaseCalls = 2 /\ req[c].releaseResult = "threw"
    /\ OutcomeShape(TheResult(c)) = "Failed"

\* C11: quorum strategy, N = 5.  A request whose acquisition was rejected
\* while 3 or more instances were erroring, so that fewer than a quorum were
\* reachable, is answered with status 503 (not the 409 of a busy resource,
\* not the 500 of a management error).
C11_UnreachableQuorumIs503 ==
  \A c \in Callers :
    (route = "redlock" /\ Returned(c) /\ req[c].acquireError = "quorum") =>
       HttpStatus(TheResult(c)) = 503

\* C16: release idempotence.  A SimpleMutexLock release answered by the
\* broker when the caller's record is no longer there (released before, or
\* expired) returns success = false, leaves the broker as it is and control
\* goes on to the return of the call; a RedLock release for a session that
\* is not tracked under the key returns success = false and changes neither
\* the brokers nor the tracked sessions.
C16_ReleaseIdempotent ==
  [][\A c \in Callers :
       LET r == req[c].resourceId IN
       /\ (/\ route = "simple" /\ ReleaseStep(c)
           /\ req'[c].releaseResult # "threw"
           /\ store[r].value # OwnToken(c)) =>
             /\ req'[c].releaseResult = "notReleased"
             /\ store' = store
             /\ pc'[c] = "done" /\ Len(result'[c]) = 1
       /\ (/\ route = "redlock" /\ pc[c] \in {"release", "cleanup"}
           /\ pc'[c] # pc[c]
           /\ activeLocks[r] # OwnToken(c)) =>
             /\ req'[c].releaseResult = "notReleased"
             /\ store' = store /\ activeLocks' = activeLocks
             /\ pc'[c] = "done" /\ Len(result'[c]) = 1]_<<vars, redVars>>

\* C16 witness: a call released twice with the same token; the first release
\* removed the record and the second returned success = false.
C16_Witness ==
  \E c \in Callers :
    /\ route = "simple" /\ Returned(c)
    /\ req[c].releaseCalls = 2 /\ req[c].releaseResult = "notReleased"
    /\ store[req[c].resourceId] = NoRecord

\* C18: shutdown ordering.  A release has been attempted for every session
\* tracked when shutdown clears the map, every attempt has settled before the
\* connections are terminated, and once shutdown has ended no session is
\* tracked.
C18_ShutdownReleasesAll ==
  /\ sd.dropped = {}
  /\ sd.pc \in {"quitting", "done"} => sd.pending = {}
  /\ sd.pc = "done" => Tracked = {}

\* C19: session lifecycle.  A tracked session belongs to a call whose acquire
\* returned success for that key, and once its owner's release has returned
\* the session is no longer tracked, whether lock.release() resolved or
\* rejected.
C19_SessionLifecycle ==
  /\ \A r \in Resources :
       activeLocks[r] # NoToken =>
         LET t == activeLocks[r] IN
         /\ t \in Callers /\ req[t].resourceId = r
         /\ req[t].acquireResult.success /\ OwnToken(t) = t
         /\ pc[t] \notin {"idle", "acquire"}
  /\ \A c \in Callers :
       (Returned(c) /\ req[c].releaseCalls >= 1) =>
          activeLocks[req[c].resourceId] # OwnToken(c)

\* C19 witness: the owner's release was rejected by the package and the call
\* has returned.
C19_Witness ==
  \E c \in Callers :
    /\ route = "redlock" /\ Returned(c)
    /\ req[c].releaseResult = "rejected"

\* C20: sliding-window limit.  Among the calls that returned allowed = true,
\* no more than maxRequests have their time inside any interval of windowMs.
C20_NoBurstBeyondLimit ==
  \A i \in 1..Len(allowedAt) :
    Cardinality({j \in 1..Len(allowedAt) :
                   /\ allowedAt[i] - windowMs < allowedAt[j]
                   /\ allowedAt[j] <= allowedAt[i]}) <= maxRequests

\* the instances that hold a record carrying the token of client c's attempt
HoldingToken(c) == {b \in Instances : inst[b].value = generateUniqueLockId(c)}

\* client c's acquisition succeeded and its validity time has not run out
Valid(c) == qc[c].pc = "acquired" /\ 100 * now < qc[c].validUntilX100

C14_QuorumMutualExclusion ==
  \A c, d \in Clients : (c # d /\ Valid(c)) => ~Valid(d)

\* one client holds a valid acquisition made on a bare majority (the other
\* instances did not grant it) while the other client's attempt has failed
C14_Witness ==
  \E c, d \in Clients :
    /\ c # d
    /\ Valid(c) /\ qc[c].acquiredCount = quorum
    /\ qc[d].pc = "failed" /\ qc[d].acquiredCount > 0

\* C15: the crash-restart scenario of the lock guide.  While client A's
\* acquisition is valid and instances 2 and 3 still hold A's record, an
\* attempt of client B that was granted three instances (1 after its restart,
\* 4 and 5) does not succeed.
C15_RestartKeepsExclusive ==
  ( /\ Valid("A")
    /\ {2, 3} \subseteq HoldingToken("A")
    /\ qc["B"].pc \notin {"idle", "acquire"}
    /\ qc["B"].acquiredCount = 3 )
  => qc["B"].pc # "acquired"

\* C24: retry hint.  When the PTTL that follows a refused set is answered, the
\* busy result carries the record's remaining TTL if that is positive and the
\* requested ttl if the record is gone; every busy result carries a positive
\* retryAfter.
C24_RetryHint ==
  /\ [](\A c \in Callers :
         ReturnedBusy(c) => req[c].acquireResult.retryAfter > 0)
  /\ [][\A c \in Callers :
         (pc[c] = "pttl" /\ pc'[c] # "pttl" /\ ~req'[c].acquireThrew) =>
           LET rec == store[req[c].resourceId]
               remaining == rec.expireAt - now
           IN /\ ReturnedBusy(c)'
              /\ req'[c].acquireResult.retryAfter =
                   IF rec # NoRecord /\ remaining > 0
                     THEN remaining ELSE lockTtlMs]_vars

\* C24 witness: a refused call has returned the remaining TTL of a record
\* that was part of the way through its TTL.
C24_Witness ==
  \E c \in Callers :
    /\ pc[c] = "done" /\ ReturnedBusy(c)
    /\ req[c].acquireResult.retryAfter = lockTtlMs - TickMs

\* C25: fail-fast.  A call enters acquire once, when the request arrives; the
\* answer to its conditional set ends the attempt, and a refused call returns
\* in its next step while the holder's record is still in place.
C25_FailFast ==
  [][\A c \in Callers :
       /\ pc'[c] = "acquire" => pc[c] \in {"idle", "acquire"}
       /\ (pc[c] = "acquire" /\ pc'[c] = "acquire") => req'[c] = req[c]
       /\ (pc[c] = "pttl" /\ pc'[c] # "pttl") =>
            /\ pc'[c] = "done" /\ now' = now /\ store' = store
            /\ Len(result'[c]) = 1 /\ ~result'[c][1].success
            /\ req'[c].opCalls = 0]_vars

\* C25 witness: a refused call has returned while the holder is still inside
\* performOperation with its record in place.
C25_Witness ==
  \E c, h \in Callers :
    /\ SameResource(c, h)
    /\ pc[c] = "done" /\ ReturnedBusy(c)
    /\ pc[h] = "operating" /\ store[req[h].resourceId].value = OwnToken(h)

C30_ReleaseChecksOwnership ==
  [][\A c \in Callers :
       route = "redlock" =>
         LET r == req[c].resourceId IN
         /\ (ReleaseStep(c) /\ activeLocks[r] # OwnToken(c)) =>
              /\ store' = store /\ activeLocks' = activeLocks
              /\ pc'[c] = "done"
              /\ req'[c].releaseResult = "notReleased"
         /\ ( /\ ReleaseStep(c) \/ (pc[c] = "releasing" /\ pc'[c] # "releasing")
              /\ store[r] # NoRecord /\ store[r].value # req[c].lockId ) =>
              store'[r] = store[r]]_<<vars, redVars>>

\* C30 witness: the earlier holder's lock expired, a later call acquired the
\* resource, and the earlier holder's release has returned success = false
\* with the later holder's record and session in place.
C30_Witness ==
  \E c, h \in Callers :
    /\ route = "redlock" /\ SameResource(c, h)
    /\ pc[c] = "done" /\ req[c].acquireResult.success
    /\ req[c].releaseResult = "notReleased"
    /\ OwnToken(h) # NoToken
    /\ activeLocks[req[h].resourceId] = OwnToken(h)
    /\ store[req[h].resourceId].value = OwnToken(h)

InWindow(t) == {j \in 1..Len(allowedAt) : allowedAt[j] > t - windowMs}

\* C21: sliding-window decision for sequential requests.  When the first
\* pipeline of a call made at time t is answered, the call goes on to be
\* allowed if and only if fewer than maxRequests allowed calls have a time
\* newer than t - windowMs; a rejected call adds nothing to the window.
C21_SequentialDecision ==
  [][\A c \in Callers :
       (lim[c].pc = "count" /\ lim'[c].pc # "count") =>
         /\ lim'[c].pc = "add" <=>
              Cardinality(InWindow(lim[c].now)) < maxRequests
         /\ lim'[c].pc = "idle" =>
              (allowedAt' = allowedAt /\
               Cardinality(zset'.members) <= Cardinality(zset.members))
    ]_<<now, limiterVars>>

\* C22: the middleware fails open.  A request whose acquirePermit threw has
\* been passed to the next handler exactly once and got no 429; a request
\* that was refused got a 429 and was never passed on; nothing is sent or
\* passed on while acquirePermit is awaited.
C22_FailOpen ==
  \A c \in Callers :
    /\ mw[c].permit = "threw" =>
         (mw[c].nextCalls = 1 /\ mw[c].status # 429)
    /\ mw[c].permit = "denied" =>
         (mw[c].status = 429 /\ mw[c].nextCalls = 0)
    /\ mw[c].pc = "awaiting" =>
         (mw[c].permit = "none" /\ mw[c].nextCalls = 0 /\ mw[c].status = 0)

\* C22 witness: one request was passed on after acquirePermit threw, another
\* was refused with 429.
C22_Witness ==
  \E c, d \in Callers :
    /\ mw[c].pc = "done" /\ mw[c].permit = "threw" /\ mw[c].nextCalls = 1
    /\ mw[d].pc = "done" /\ mw[d].permit = "denied" /\ mw[d].status = 429

\* C23: stampede prevention.  When every get call started with an empty
\* cache and neither the lock expired nor a wait timed out, the expensive
\* computation is run by one call only, the lock winner, and every other
\* call returns the cached value.
C23_SingleComputation ==
  ( /\ \A c \in Callers : sp[c].miss
    /\ ~sghost.lockExpired /\ ~sghost.timedOut )
  => /\ sghost.computations <= 1
     /\ \A c \in Callers :
          (sp[c].pc = "done" /\ ~sp[c].lockAcquired) => sp[c].source = "cache"

C32_ResourcesIndependent ==
  /\ [](\A r1, r2 \in DOMAIN store :
          r1 # r2 => getLockKey(r1) # getLockKey(r2))
  /\ [][\A r \in DOMAIN store :
          /\ (store'[r] # store[r] \/ activeLocks'[r] # activeLocks[r]) =>
               \/ now' # now /\ activeLocks'[r] = activeLocks[r]
               \/ \E c \in Callers :
                    /\ pc'[c] # pc[c]
                    /\ req[c].resourceId = r
          /\ \A c \in Callers :
               (pc[c] = "acquire" /\ pc'[c] = "pttl"
                /\ req[c].resourceId = r) => store[r] # NoRecord
     ]_<<vars, redVars>>

\* one request holds resource 1 while another one is granted resource 2
C32_Witness ==
  \E a, b \in Callers :
    /\ pc[a] = "operating" /\ req[a].resourceId = 1
    /\ pc[b] = "operating" /\ req[b].resourceId = 2
    /\ store[1] # NoRecord /\ store[2] # NoRecord

\* the lock winner has stored the value and its PUBLISH has completed
PublishDone ==
  \E w \in Callers :
    /\ sp[w].lockAcquired /\ sp[w].source = "computed"
    /\ sp[w].pc \in {"unlock", "done"}

\* C33: no missed ready notification.  A loser that subscribed either finds
\* the value in its re-check or receives the winner's notification: its wait
\* never ends by the timeout once the winner has completed its publish.
C33_NoMissedNotification ==
  [][\A c \in Callers :
       (sp[c].pc = "wait" /\ sp'[c].pc = "cleanup" /\ ~sp'[c].notified)
         => ~PublishDone]_stampedeVars

\* C34: stampede lock release.  The call that acquired the stampede lock
\* returns (or rethrows) only out of its finally block, after releaseLock,
\* also when the computation threw; that release removes the lock key only
\* when the key still carries this call's value and leaves a lock that
\* another call acquired after the expiry.
C34_LockRelease ==
  [][\A c \in Callers :
       /\ (sp[c].lockAcquired /\ sp[c].pc # "done" /\ sp'[c].pc = "done")
            => sp[c].pc = "unlock"
       /\ (sp[c].pc = "unlock" /\ sp'[c].pc = "done")
            => scache'.lock = IF scache.lock = c THEN NoToken ELSE scache.lock
    ]_stampedeVars

\* a winner whose lock expired has returned and the lock that another call
\* acquired meanwhile is still in place
C34_Witness ==
  \E c, d \in Callers :
    /\ c # d /\ sghost.lockExpired
    /\ sp[c].lockAcquired /\ sp[c].pc = "done"
    /\ sp[d].lockAcquired /\ scache.lock = d

\* C35: stampede waiters always finish.  A call that lost the lock and whose
\* wait ended without the value or a notification computes the value itself,
\* and once its wait is over, on whatever path, its subscriber connection
\* has been unsubscribed and disconnected.
C35_WaitersFinish ==
  \A c \in Callers :
    /\ (sp[c].subscriber # "none"
        /\ sp[c].pc \in {"read", "compute", "store", "publish", "done"})
         => /\ sp[c].subscriber = "closed"
            /\ c \notin scache.subscribers
    /\ (sp[c].subscriber # "none" /\ sp[c].pc = "done"
        /\ ~sp[c].cached /\ ~sp[c].notified) => sp[c].source # "cache"

\* the background refreshes that hold the lock and have not finished
Refreshing == {c \in Callers : rp[c].pc \in {"refreshing", "release"}}

\* C36 as stated: across any interleaving of get calls that find the TTL
\* below the threshold, at most one background refresh of the key is
\* executing at any time.
C36_Original == Cardinality(Refreshing) <= 1

\* C36 as the code has it: as long as no refresh has outlasted the TTL of the
\* lock key, at most one background refresh of the key is executing at any
\* time, and the lock key is set while it does.
C36_SingleRefreshWithinTtl ==
  ~rghost.lockExpired =>
    /\ Cardinality(Refreshing) <= 1
    /\ Refreshing # {} => rcache.lock

\* one refresh is executing and another get that found the TTL below the
\* threshold is about to ask for the lock
C36_Witness ==
  \E c, d \in Callers :
    /\ ~rghost.lockExpired
    /\ rp[c].pc = "refreshing" /\ rp[d].pc = "trylock"
    /\ rcache.lock

\* C37: reliable write-behind queue.  Every accepted write is waiting to be
\* delivered, is in the pending list of a consumer, from which it can be
\* processed again or claimed by another consumer, or has been processed and
\* acknowledged; a message that was delivered and not acknowledged is not
\* dropped by stop().
C37_ReliableQueue ==
  \A i \in DOMAIN wq :
    \/ wq[i].state \in {"new", "acked"}
    \/ wq[i].state = "pending" /\ wq[i].owner \in Consumers

====
